---------------------------- MODULE Spec2Model ----------------------------
(***************************************************************************)
(* A model of src/token.rs of rust-jwt-simple: the compact-token codec     *)
(* (Token::build, Token::verify, Token::decode_metadata) and the unsigned  *)
(* metadata builder (NewTokenMetadata and its thumbprint setters).         *)
(*                                                                         *)
(* Text is a sequence of bytes (a Rust &str of ASCII characters), binary   *)
(* data a sequence of numbers in 0..255.  Option<T> is a sequence of       *)
(* length at most one: None is << >>, Some(v) is <<v>>.  Result<T, Error>  *)
(* is a record [ok, err, val].                                             *)
(***************************************************************************)
EXTENDS Integers, Sequences, FiniteSets, TLC

(***************************************************************************)
(* Option and Result                                                       *)
(***************************************************************************)
None == << >>

Some(v) == << v >>

IsSome(o) == Len(o) = 1

Ok(v) == [ok |-> TRUE, err |-> "", val |-> v]

\* the function f on 1..n as a sequence
AsSeq(f) == SubSeq(f, 1, Len(f))

Err(e) == [ok |-> FALSE, err |-> e, val |-> << >>]

(***************************************************************************)
(* Bounds of the model                                                     *)
(***************************************************************************)
\* the keys are 1..NumKeys
NumKeys == 2

\* the long header segments exceed MAX_HEADER_LENGTH by 4 * j characters
\* (the well-formed ones) and by j characters (the others), j in
\* 0..MaxOversize
MaxOversize == 1

\* the thumbprint setters are given NumThumbprints values of each length
NumThumbprints == 2

(***************************************************************************)
(* Constants of the program                                                *)
(***************************************************************************)
MAX_HEADER_LENGTH == 8192

\* the separator of token.split('.') and of format!("{}.{}")
Dot == 46

\* let mut bin = [0u8; 20]
Sha1Len == 20

\* if thumbprint.len() == 40
Sha1HexLen == 40

\* let mut bin = [0u8; 32]
Sha256Len == 32

\* if thumbprint.len() == 64
Sha256HexLen == 64

(***************************************************************************)
(* ct_codecs::Base64UrlSafeNoPadding: the URL-safe alphabet, no padding.   *)
(* Decoding refuses a character outside the alphabet (the padding '='      *)
(* included), a length of 1 modulo 4 and non-zero trailing bits.           *)
(***************************************************************************)
Pow2(n) == 2 ^ n

\* the character of a 6-bit value: A-Z a-z 0-9 - _
B64Char(v) ==
    IF v < 26 THEN 65 + v
    ELSE IF v < 52 THEN 97 + (v - 26)
    ELSE IF v < 62 THEN 48 + (v - 52)
    ELSE IF v = 62 THEN 45
    ELSE 95

\* the 6-bit value of a character, -1 for a character outside the alphabet
B64Val(c) ==
    IF c >= 65 /\ c <= 90 THEN c - 65
    ELSE IF c >= 97 /\ c <= 122 THEN c - 97 + 26
    ELSE IF c >= 48 /\ c <= 57 THEN c - 48 + 52
    ELSE IF c = 45 THEN 62
    ELSE IF c = 95 THEN 63
    ELSE -1

\* Base64UrlSafeNoPadding::encode_to_string(bin): never fails on these inputs
Base64Encode(bin) ==
    LET n == Len(bin)
        m == (8 * n + 5) \div 6
        byte(i) == IF i <= n THEN bin[i] ELSE 0
        sextet(k) ==
            LET b == (6 * k) \div 8
                r == (6 * k) % 8
                w == 256 * byte(b + 1) + byte(b + 2)
            IN  (w \div Pow2(10 - r)) % 64
    IN  AsSeq([i \in 1..m |-> B64Char(sextet(i - 1))])

\* the (acc_len, acc) test at the end of the decoder: the bits left over
\* after the last whole byte must be at most 4 and all zero
B64TrailingOk(b64) ==
    LET left == (6 * Len(b64)) % 8
    IN  /\ left <= 4
        /\ left > 0 => B64Val(b64[Len(b64)]) % Pow2(left) = 0

\* the bytes a valid text decodes to
B64Bytes(b64) ==
    LET n == (6 * Len(b64)) \div 8
        val(i) == IF i <= Len(b64) THEN B64Val(b64[i]) ELSE 0
        octet(k) ==
            LET c == (8 * k) \div 6
                r == (8 * k) % 6
                w == 64 * val(c + 1) + val(c + 2)
            IN  (w \div Pow2(4 - r)) % 256
    IN  AsSeq([i \in 1..n |-> octet(i - 1)])

\* Base64UrlSafeNoPadding::decode_to_vec(b64, None)
Base64Decode(b64) ==
    IF /\ \A i \in 1..Len(b64) : B64Val(b64[i]) >= 0
       /\ B64TrailingOk(b64)
    THEN Ok(B64Bytes(b64))
    ELSE Err("EncodingError")

\* Base64UrlSafeNoPadding::decode(&mut bin, b64, None) into a buffer of
\* maxlen bytes: Error::Overflow when the text decodes to more
Base64Fits(maxlen, r) ==
    IF r.ok /\ Len(r.val) > maxlen THEN Err("EncodingError") ELSE r

Base64DecodeInto(maxlen, b64) == Base64Fits(maxlen, Base64Decode(b64))

(***************************************************************************)
(* ct_codecs::Hex: decoding takes both cases, refuses any other character  *)
(* and an odd length.                                                      *)
(***************************************************************************)
HexVal(c) ==
    IF c >= 48 /\ c <= 57 THEN c - 48
    ELSE IF c >= 97 /\ c <= 102 THEN c - 97 + 10
    ELSE IF c >= 65 /\ c <= 70 THEN c - 65 + 10
    ELSE -1

\* Hex::decode(&mut bin, hex, None) into a buffer of maxlen bytes
HexDecodeInto(maxlen, hex) ==
    IF /\ \A i \in 1..Len(hex) : HexVal(hex[i]) >= 0
       /\ Len(hex) % 2 = 0
       /\ Len(hex) \div 2 <= maxlen
    THEN Ok(AsSeq([i \in 1..(Len(hex) \div 2) |->
                        16 * HexVal(hex[2 * i - 1]) + HexVal(hex[2 * i])]))
    ELSE Err("EncodingError")

(***************************************************************************)
(* serde_json, on the JSON texts the model's inputs hold: an object whose  *)
(* members are strings, non-negative integers and arrays of strings, with  *)
(* optional white space between the tokens.  A member is <<key, value>>,   *)
(* a value a record [t, s, n, a] of which t says which field counts.       *)
(* Strings hold no escape: a backslash or a control character in a string  *)
(* is refused, as is a value of any other type.                            *)
(***************************************************************************)
JStr(s) == [t |-> "str", s |-> s, n |-> 0, a |-> << >>]

JNum(n) == [t |-> "num", s |-> << >>, n |-> n, a |-> << >>]

JArr(a) == [t |-> "arr", s |-> << >>, n |-> 0, a |-> a]

\* the byte at i, -1 past the end
At(b, i) == IF i >= 1 /\ i <= Len(b) THEN b[i] ELSE -1

\* the least j >= i where the byte is in S, or Len(b) + 1
FirstIn(b, i, S) ==
    CHOOSE j \in i..(Len(b) + 1) :
        /\ j = Len(b) + 1 \/ b[j] \in S
        /\ \A k \in i..(j - 1) : b[k] \notin S

\* the least j >= i where the byte is not in S, or Len(b) + 1
FirstNotIn(b, i, S) ==
    CHOOSE j \in i..(Len(b) + 1) :
        /\ j = Len(b) + 1 \/ b[j] \notin S
        /\ \A k \in i..(j - 1) : b[k] \in S

IsDigit(c) == c >= 48 /\ c <= 57

\* space, tab, line feed, carriage return
SkipWs(b, i) == FirstNotIn(b, i, {32, 9, 10, 13})

POk(v, next) == [ok |-> TRUE, val |-> v, next |-> next]

PErr == [ok |-> FALSE, val |-> << >>, next |-> 0]

RECURSIVE DigitsValue(_)
DigitsValue(d) ==
    IF d = << >> THEN 0
    ELSE 10 * DigitsValue(SubSeq(d, 1, Len(d) - 1)) + (d[Len(d)] - 48)

RECURSIVE Digits(_)
Digits(n) ==
    IF n < 10 THEN << 48 + n >> ELSE Digits(n \div 10) \o << 48 + (n % 10) >>

\* the string that opens at i and closes at e
JsonStringTo(b, i, e) ==
    IF e > Len(b) \/ \E k \in (i + 1)..(e - 1) : b[k] = 92 \/ b[k] < 32
    THEN PErr
    ELSE POk(SubSeq(b, i + 1, e - 1), e + 1)

JsonString(b, i) ==
    IF At(b, i) # 34 THEN PErr ELSE JsonStringTo(b, i, FirstIn(b, i + 1, {34}))

\* the number whose digits are at i..e-1: no digit, or a leading zero, is
\* an error
JsonNumberTo(b, i, e) ==
    IF e = i \/ (e > i + 1 /\ b[i] = 48) THEN PErr
    ELSE POk(DigitsValue(SubSeq(b, i, e - 1)), e)

JsonNumber(b, i) == JsonNumberTo(b, i, FirstNotIn(b, i, 48..57))

\* the items of an array from position i, after '[' or ',': a string, then
\* ',' and the next item, or ']'
RECURSIVE JsonArrayItems(_, _, _)
JsonArrayEnd(b, acc, j) ==
    IF At(b, j) = 44 THEN JsonArrayItems(b, j + 1, acc)
    ELSE IF At(b, j) = 93 THEN POk(acc, j + 1)
    ELSE PErr

JsonArrayItem(b, acc, item) ==
    IF ~item.ok THEN PErr
    ELSE JsonArrayEnd(b, Append(acc, item.val), SkipWs(b, item.next))

JsonArrayItems(b, i, acc) == JsonArrayItem(b, acc, JsonString(b, SkipWs(b, i)))

\* the array that opens at i, whose first token is at j
JsonArrayFrom(b, j) ==
    IF At(b, j) = 93 THEN POk(<< >>, j + 1) ELSE JsonArrayItems(b, j, << >>)

JsonArray(b, i) == JsonArrayFrom(b, SkipWs(b, i + 1))

\* a parsed string, number or array as a value of type t
JsonTyped(t, r) ==
    IF ~r.ok THEN PErr
    ELSE POk(IF t = "str" THEN JStr(r.val)
             ELSE IF t = "num" THEN JNum(r.val)
             ELSE JArr(r.val),
             r.next)

JsonValue(b, i) ==
    IF At(b, i) = 34 THEN JsonTyped("str", JsonString(b, i))
    ELSE IF At(b, i) = 91 THEN JsonTyped("arr", JsonArray(b, i))
    ELSE IF IsDigit(At(b, i)) THEN JsonTyped("num", JsonNumber(b, i))
    ELSE PErr

\* the members of an object from position i, after '{' or ',': a key, ':',
\* a value, then ',' and the next member, or '}'
RECURSIVE JsonMembers(_, _, _)
JsonMemberEnd(b, acc, j) ==
    IF At(b, j) = 44 THEN JsonMembers(b, j + 1, acc)
    ELSE IF At(b, j) = 125 THEN POk(acc, j + 1)
    ELSE PErr

JsonMemberValue(b, acc, key, value) ==
    IF ~value.ok THEN PErr
    ELSE JsonMemberEnd(b, Append(acc, << key, value.val >>), SkipWs(b, value.next))

JsonMemberColon(b, acc, key, colon) ==
    IF At(b, colon) # 58 THEN PErr
    ELSE JsonMemberValue(b, acc, key, JsonValue(b, SkipWs(b, colon + 1)))

JsonMemberKey(b, acc, key) ==
    IF ~key.ok THEN PErr
    ELSE JsonMemberColon(b, acc, key.val, SkipWs(b, key.next))

JsonMembers(b, i, acc) == JsonMemberKey(b, acc, JsonString(b, SkipWs(b, i)))

\* the object that opens at open, whose first token is at j
JsonObjectFrom(b, open, j) ==
    IF At(b, open) # 123 THEN PErr
    ELSE IF At(b, j) = 125 THEN POk(<< >>, j + 1)
    ELSE JsonMembers(b, j, << >>)

JsonObject(b, open) == JsonObjectFrom(b, open, SkipWs(b, open + 1))

\* the parsed object, if only white space follows it
JsonWhole(b, r) ==
    IF r.ok /\ SkipWs(b, r.next) = Len(b) + 1
    THEN Ok(r.val)
    ELSE Err("SerializationError")

\* serde_json::from_slice, to the members of the object: trailing
\* characters other than white space are an error
JsonParse(b) == JsonWhole(b, JsonObject(b, SkipWs(b, 1)))

JsonQuote(s) == << 34 >> \o s \o << 34 >>

\* the texts joined by commas
RECURSIVE JsonJoin(_)
JsonJoin(texts) ==
    IF texts = << >> THEN << >>
    ELSE IF Len(texts) = 1 THEN texts[1]
    ELSE texts[1] \o << 44 >> \o JsonJoin(Tail(texts))

JsonWriteValue(v) ==
    IF v.t = "str" THEN JsonQuote(v.s)
    ELSE IF v.t = "num" THEN Digits(v.n)
    ELSE << 91 >> \o JsonJoin([i \in 1..Len(v.a) |-> JsonQuote(v.a[i])]) \o << 93 >>

JsonWriteMember(m) == JsonQuote(m[1]) \o << 58 >> \o JsonWriteValue(m[2])

\* serde_json::to_string of an object with these members: no white space
JsonWrite(members) ==
    << 123 >>
        \o JsonJoin([i \in 1..Len(members) |-> JsonWriteMember(members[i])])
        \o << 125 >>

(***************************************************************************)
(* JWTHeader (crate::jwt_header) and its serde form.  algorithm is a       *)
(* String, every other field an Option; the JSON names are those of RFC    *)
(* 7515.  A field that is None is not written; on reading, a missing       *)
(* optional field is None, an unknown member is ignored, a member given    *)
(* twice or with a value of the wrong type is an error, and "alg" must be  *)
(* there.                                                                  *)
(***************************************************************************)
\* <<field, JSON name, type>> in the order the fields are written
HeaderFields ==
    << << "algorithm", << 97, 108, 103 >>, "str" >>,
       << "content_type", << 99, 116, 121 >>, "str" >>,
       << "key_id", << 107, 105, 100 >>, "str" >>,
       << "signature_type", << 116, 121, 112 >>, "str" >>,
       << "critical", << 99, 114, 105, 116 >>, "arr" >>,
       << "certificate_chain", << 120, 53, 99 >>, "arr" >>,
       << "key_set_url", << 106, 107, 117 >>, "str" >>,
       << "public_key", << 106, 119, 107 >>, "str" >>,
       << "certificate_url", << 120, 53, 117 >>, "str" >>,
       << "certificate_sha1_thumbprint", << 120, 53, 116 >>, "str" >>,
       << "certificate_sha256_thumbprint",
          << 120, 53, 116, 35, 83, 50, 53, 54 >>, "str" >> >>

HeaderFieldNames == {HeaderFields[i][1] : i \in 1..Len(HeaderFields)}

\* JWTHeader::default() with the algorithm and the key id of
\* NewTokenMetadata::new; signature_type is the default's
HeaderOf(algorithm, key_id, signature_type) ==
    [f \in HeaderFieldNames |->
        IF f = "algorithm" THEN algorithm
        ELSE IF f = "key_id" THEN key_id
        ELSE IF f = "signature_type" THEN signature_type
        ELSE None]

\* the value of a field as JSON
FieldToJson(type, v) ==
    IF type = "str" THEN JStr(v)
    ELSE IF type = "num" THEN JNum(v)
    ELSE JArr(v)

\* the value of a JSON member as a field's
FieldOfJson(type, j) ==
    IF type = "str" THEN j.s
    ELSE IF type = "num" THEN j.n
    ELSE j.a

\* the members of the sequence that are there (Some): None is left out
RECURSIVE Present(_)
Present(opts) ==
    IF opts = << >> THEN << >>
    ELSE opts[1] \o Present(Tail(opts))

\* serde_json::to_string(&jwt_header)
HeaderToJson(h) ==
    JsonWrite(Present(
        [i \in 1..Len(HeaderFields) |->
            LET f == HeaderFields[i]
            IN  IF f[1] = "algorithm"
                THEN Some(<< f[2], JStr(h.algorithm) >>)
                ELSE IF IsSome(h[f[1]])
                THEN Some(<< f[2], FieldToJson(f[3], h[f[1]][1]) >>)
                ELSE None]))

\* the indices of the members named key
MembersNamed(members, key) == {i \in 1..Len(members) : members[i][1] = key}

\* whether the members fit the fields: none twice, each of its type
MembersFit(members, fields) ==
    \A i \in 1..Len(fields) :
        \A k \in MembersNamed(members, fields[i][2]) :
            /\ MembersNamed(members, fields[i][2]) = {k}
            /\ members[k][2].t = fields[i][3]

\* Option of the field's value among the members
MemberField(members, field) ==
    IF MembersNamed(members, field[2]) = {} THEN None
    ELSE Some(FieldOfJson(field[3],
                members[CHOOSE k \in MembersNamed(members, field[2]) : TRUE][2]))

\* the field named f
FieldNamed(fields, f) == fields[CHOOSE i \in 1..Len(fields) : fields[i][1] = f]

\* the header the members of a JSON object give
HeaderOfMembers(members) ==
    IF \/ ~MembersFit(members, HeaderFields)
       \/ MembersNamed(members, HeaderFields[1][2]) = {}
    THEN Err("SerializationError")
    ELSE Ok([f \in HeaderFieldNames |->
                IF f = "algorithm"
                THEN MemberField(members, FieldNamed(HeaderFields, f))[1]
                ELSE MemberField(members, FieldNamed(HeaderFields, f))])

HeaderOfParsed(parsed) ==
    IF parsed.ok THEN HeaderOfMembers(parsed.val) ELSE parsed

\* serde_json::from_slice::<JWTHeader>(bytes)
HeaderFromJson(bytes) == HeaderOfParsed(JsonParse(bytes))

(***************************************************************************)
(* JWTClaims<CustomClaims> (crate::claims) and its serde form.  The times  *)
(* are whole seconds.  audiences is None, a single string or a set of      *)
(* strings: a string is written as a JSON string, a set as a JSON array    *)
(* in the order the set iterates, and read back as what it was written.    *)
(* The custom claims are flattened beside the standard ones: custom holds  *)
(* the members whose names are not the standard ones.                      *)
(***************************************************************************)
ClaimsFields ==
    << << "issued_at", << 105, 97, 116 >>, "num" >>,
       << "expires_at", << 101, 120, 112 >>, "num" >>,
       << "invalid_before", << 110, 98, 102 >>, "num" >>,
       << "issuer", << 105, 115, 115 >>, "str" >>,
       << "subject", << 115, 117, 98 >>, "str" >>,
       << "audiences", << 97, 117, 100 >>, "aud" >>,
       << "jwt_id", << 106, 116, 105 >>, "str" >>,
       << "nonce", << 110, 111, 110, 99, 101 >>, "str" >> >>

ClaimsFieldNames == {ClaimsFields[i][1] : i \in 1..Len(ClaimsFields)}

ClaimsKeys == {ClaimsFields[i][2] : i \in 1..Len(ClaimsFields)}

\* Audiences::AsString and Audiences::AsSet
AsString(str) == [kind |-> "string", str |-> str, set |-> {}]

AsSet(set) == [kind |-> "set", str |-> << >>, set |-> set]

\* the sequences that list the set, each member once: the orders a HashSet
\* may iterate in
Orders(set) ==
    {o \in [1..Cardinality(set) -> set] : {o[i] : i \in DOMAIN o} = set}

\* the members whose names are not those of the standard claims, in order
RECURSIVE CustomMembers(_)
CustomMembers(members) ==
    IF members = << >> THEN << >>
    ELSE (IF members[1][1] \in ClaimsKeys THEN << >> ELSE << members[1] >>)
            \o CustomMembers(Tail(members))

\* serde_json::to_string(&claims), the audience set iterating in order
ClaimsToJson(c, order) ==
    JsonWrite(Present(
        [i \in 1..Len(ClaimsFields) |->
            LET f == ClaimsFields[i]
                v == c[f[1]]
            IN  IF ~IsSome(v) THEN None
                ELSE IF f[3] # "aud" THEN Some(<< f[2], FieldToJson(f[3], v[1]) >>)
                ELSE IF v[1].kind = "string" THEN Some(<< f[2], JStr(v[1].str) >>)
                ELSE Some(<< f[2], JArr(order) >>)])
        \o c.custom)

\* the type of the member named "aud": a string or an array is read, any
\* other type is refused like a field of the wrong type
AudienceType(members) ==
    IF \E k \in MembersNamed(members, << 97, 117, 100 >>) : members[k][2].t = "arr"
    THEN "arr"
    ELSE "str"

\* the fields of the claims, the audience of the type the members give it
ClaimsFieldsFor(members) ==
    [i \in 1..Len(ClaimsFields) |->
        IF ClaimsFields[i][3] = "aud"
        THEN << ClaimsFields[i][1], ClaimsFields[i][2], AudienceType(members) >>
        ELSE ClaimsFields[i]]

\* Option of the audiences a member value gives
AudiencesOf(type, v) ==
    IF ~IsSome(v) THEN None
    ELSE IF type = "str" THEN Some(AsString(v[1]))
    ELSE Some(AsSet({v[1][k] : k \in 1..Len(v[1])}))

\* the claims the members of a JSON object give
ClaimsOfMembers(members, fields) ==
    IF ~MembersFit(members, fields)
    THEN Err("SerializationError")
    ELSE Ok([f \in ClaimsFieldNames \cup {"custom"} |->
                IF f = "custom" THEN CustomMembers(members)
                ELSE IF f = "audiences"
                THEN AudiencesOf(FieldNamed(fields, f)[3],
                                 MemberField(members, FieldNamed(fields, f)))
                ELSE MemberField(members, FieldNamed(fields, f))])

ClaimsOfParsed(parsed) ==
    IF parsed.ok
    THEN ClaimsOfMembers(parsed.val, ClaimsFieldsFor(parsed.val))
    ELSE parsed

\* serde_json::from_slice::<JWTClaims<CustomClaims>>(bytes)
ClaimsFromJson(bytes) == ClaimsOfParsed(JsonParse(bytes))

(***************************************************************************)
(* VerificationOptions (crate::common) and JWTClaims::validate             *)
(* (crate::claims): every constraint that is None is not enforced.         *)
(***************************************************************************)
DefaultOptions ==
    [required_key_id |-> None, allowed_issuers |-> None,
     allowed_audiences |-> None, required_nonce |-> None,
     time_tolerance |-> None, require_expiration |-> FALSE]

\* the values of the audience claim
AudienceValues(audiences) ==
    IF ~IsSome(audiences) THEN {}
    ELSE IF audiences[1].kind = "string" THEN {audiences[1].str}
    ELSE audiences[1].set

UnwrapOr(o, d) == IF IsSome(o) THEN o[1] ELSE d

\* claims.validate(&options) at time now
Validate(c, o, now) ==
    LET leeway == UnwrapOr(o.time_tolerance, 0)
    IN  IF IsSome(c.expires_at) /\ now > c.expires_at[1] + leeway
        THEN Err("Expired")
        ELSE IF o.require_expiration /\ ~IsSome(c.expires_at)
        THEN Err("MissingRequiredExpiration")
        ELSE IF IsSome(c.invalid_before) /\ c.invalid_before[1] > now + leeway
        THEN Err("NotYetValid")
        ELSE IF /\ IsSome(o.allowed_issuers)
                /\ ~(IsSome(c.issuer) /\ c.issuer[1] \in o.allowed_issuers[1])
        THEN Err("InvalidIssuer")
        ELSE IF /\ IsSome(o.allowed_audiences)
                /\ AudienceValues(c.audiences) \cap o.allowed_audiences[1] = {}
        THEN Err("InvalidAudience")
        ELSE IF IsSome(o.required_nonce) /\ c.nonce # o.required_nonce
        THEN Err("NonceMismatch")
        ELSE Ok(c)

(***************************************************************************)
(* The closures of the caller.  The tag of a text under key k is an ideal  *)
(* one: no two texts and no two keys share a tag.  The signing closure may *)
(* also fail.  The verification closure is the one matching the key, one   *)
(* that accepts everything or one that rejects everything.                 *)
(***************************************************************************)
Mac(k, text) == << k >> \o text

\* authentication_or_signature_fn(&authenticated) of Token::build
SignFn(k, works, text) ==
    IF works THEN Ok(Mac(k, text)) ELSE Err("SigningError")

\* authentication_or_signature_fn(authenticated, &authentication_tag) of
\* Token::verify
VerifyFn(kind, k, text, tag) ==
    IF kind = "accept" \/ (kind = "matched" /\ tag = Mac(k, text))
    THEN Ok(<< >>)
    ELSE Err("AuthenticationFailure")

(***************************************************************************)
(* Token::build                                                            *)
(***************************************************************************)
\* format!("{}.{}", base64(jwt_header_json), base64(claims_json))
BuildAuthenticated(jwt_header, c, order) ==
    Base64Encode(HeaderToJson(jwt_header))
        \o << Dot >> \o Base64Encode(ClaimsToJson(c, order))

\* Token::build with the closure given the JSON texts instead of their
\* base64url encodings
TokenBuildSigningJson(jwt_header, c, order, k, works) ==
    LET authenticated == BuildAuthenticated(jwt_header, c, order)
        authentication_tag_or_signature ==
            SignFn(k, works, HeaderToJson(jwt_header) \o << Dot >>
                                \o ClaimsToJson(c, order))
    IN  IF ~authentication_tag_or_signature.ok
        THEN authentication_tag_or_signature
        ELSE Ok(authenticated \o << Dot >>
                    \o Base64Encode(authentication_tag_or_signature.val))

\* the token, or the error of the closure
TokenBuild(jwt_header, c, order, k, works) ==
    LET authenticated == BuildAuthenticated(jwt_header, c, order)
        authentication_tag_or_signature == SignFn(k, works, authenticated)
    IN  IF ~authentication_tag_or_signature.ok
        THEN authentication_tag_or_signature
        ELSE Ok(authenticated \o << Dot >>
                    \o Base64Encode(authentication_tag_or_signature.val))

(***************************************************************************)
(* str::split('.'): the iterator is the index where the next part starts,  *)
(* 0 once the last part is out.                                            *)
(***************************************************************************)
SplitNext(text, pos) ==
    IF pos = 0 THEN [part |-> None, pos |-> 0]
    ELSE LET d == FirstIn(text, pos, {Dot})
         IN  [part |-> Some(SubSeq(text, pos, d - 1)),
              pos |-> IF d > Len(text) THEN 0 ELSE d + 1]

(***************************************************************************)
(* The inputs the model draws from                                         *)
(***************************************************************************)
HS256 == << 72, 83, 50, 53, 54 >>

RS256 == << 82, 83, 50, 53, 54 >>

\* "hs256"
Hs256Lower == << 104, 115, 50, 53, 54 >>

JWT == << 74, 87, 84 >>

JOSE == << 74, 79, 83, 69 >>

\* "k1" and "k2"
Kid1 == << 107, 49 >>

Kid2 == << 107, 50 >>

\* "a" and "b"
AudA == << 97 >>

AudB == << 98 >>

\* "n1"
Nonce1 == << 110, 49 >>

Keys == 1..NumKeys

\* the times Clock::now may give
Clock == {3, 8}

AlgNames == {HS256, RS256}

VerifyFnKinds == {"matched", "accept", "reject"}

OptionsInputs ==
    { None,
      Some([DefaultOptions EXCEPT !.required_key_id = Some(Kid1)]),
      Some([DefaultOptions EXCEPT !.allowed_audiences = Some({AudA})]),
      Some([DefaultOptions EXCEPT !.allowed_issuers = Some({AudA}),
                                  !.required_nonce = Some(Nonce1)]),
      Some([DefaultOptions EXCEPT !.time_tolerance = Some(3),
                                  !.require_expiration = TRUE]) }

BuildHeaders ==
    { HeaderOf(HS256, None, Some(JWT)),
      HeaderOf(HS256, Some(Kid1), None),
      HeaderOf(RS256, Some(Kid2), Some(JWT)) }

NoClaims ==
    [f \in ClaimsFieldNames \cup {"custom"} |->
        IF f = "custom" THEN << >> ELSE None]

BuildClaims ==
    { NoClaims,
      [NoClaims EXCEPT !.audiences = Some(AsSet({}))],
      [NoClaims EXCEPT !.audiences = Some(AsString(<< >>))],
      [NoClaims EXCEPT !.audiences = Some(AsSet({AudA, AudB})),
                       !.issuer = Some(AudA), !.nonce = Some(Nonce1),
                       !.expires_at = Some(10)],
      [NoClaims EXCEPT !.audiences = Some(AsString(AudA)),
                       !.expires_at = Some(5), !.invalid_before = Some(5),
                       !.custom = << << << 120 >>, JStr(<< 121 >>) >> >>] }

\* the JSON name of a header field
HeaderKey(f) == FieldNamed(HeaderFields, f)[2]

\* header texts no Token::build of the model writes: a signature type that
\* is not "JWT", an algorithm in lower case, no algorithm, an unknown
\* member before the known ones, and a text that is no JSON
ForeignHeaderJsons ==
    { JsonWrite(<< << HeaderKey("algorithm"), JStr(RS256) >>,
                   << HeaderKey("signature_type"), JStr(JOSE) >> >>),
      JsonWrite(<< << HeaderKey("algorithm"), JStr(Hs256Lower) >>,
                   << HeaderKey("key_id"), JStr(Kid1) >> >>),
      JsonWrite(<< << HeaderKey("signature_type"), JStr(JWT) >> >>),
      JsonWrite(<< << << 122, 122 >>, JStr(<< 113 >>) >>,
                   << HeaderKey("key_id"), JStr(Kid1) >>,
                   << HeaderKey("algorithm"), JStr(HS256) >> >>),
      << 120 >> }

\* a header segment, a claims segment and a tag segment that decode
GoodHeaderB64 == Base64Encode(HeaderToJson(HeaderOf(HS256, None, None)))

GoodClaimsB64 ==
    Base64Encode(ClaimsToJson([NoClaims EXCEPT !.issuer = Some(AudA)], << >>))

GoodTagB64 == Base64Encode(<< 1, 2 >>)

\* a header segment of MAX_HEADER_LENGTH + 4 * j characters that decodes
\* to a header: the JSON text followed by spaces
PaddedHeaderB64(j) ==
    LET json == HeaderToJson(HeaderOf(HS256, None, None))
        n == 3 * (MAX_HEADER_LENGTH \div 4) + 3 * j
    IN  Base64Encode(json \o AsSeq([i \in 1..(n - Len(json)) |-> 32]))

\* a header segment of MAX_HEADER_LENGTH + j characters that is no
\* base64url text: '!' repeated
JunkHeaderB64(j) == AsSeq([i \in 1..(MAX_HEADER_LENGTH + j) |-> 33])

LongHeaderSegments ==
    UNION {{PaddedHeaderB64(j), JunkHeaderB64(j)} : j \in 0..MaxOversize}

Join3(a, b, c) == a \o << Dot >> \o b \o << Dot >> \o c

\* the tokens a third party sends
ForeignTokens ==
    {Join3(Base64Encode(j), GoodClaimsB64, GoodTagB64) : j \in ForeignHeaderJsons}
    \cup {Join3(h, GoodClaimsB64, GoodTagB64) : h \in LongHeaderSegments \cup {<< 33, 33 >>}}
    \cup LongHeaderSegments
    \cup {Join3(GoodHeaderB64, c, GoodTagB64) :
            c \in {<< 33 >>, Base64Encode(JsonWrite(<< << << 97, 117, 100 >>, JNum(5) >> >>))}}
    \cup { Join3(GoodHeaderB64, GoodClaimsB64, << 65 >>),
           GoodHeaderB64,
           GoodHeaderB64 \o << Dot >> \o GoodClaimsB64,
           Join3(GoodHeaderB64, GoodClaimsB64, GoodTagB64) \o << Dot >> \o GoodTagB64 }

(***************************************************************************)
(* The state                                                               *)
(***************************************************************************)
VARIABLES
    key,                    \* the key the caller's closures hold
    token,                  \* the token last built, received or tampered with
    built,                  \* Some of what Token::build made token from
    tampered,               \* whether token was changed after it was built
    op,                     \* the operation running: "verify", ...
    pc,                     \* the statement it is at; "idle" and "done"
    jwt_alg_name,           \* argument of verify
    options,                \* argument of verify, after unwrap_or_default
    verify_fn,              \* argument of verify: the kind of the closure
    parts,                  \* token.split('.')
    jwt_header_b64,         \* the locals of verify and decode_metadata
    claims_b64,
    authentication_tag_b64,
    jwt_header,
    authentication_tag,
    claims,
    fn_calls,               \* the calls of the closure so far
    trace,                  \* the statements the operation has run
    result,                 \* Some of what the operation returned
    metadata,               \* the NewTokenMetadata under construction
    call                    \* Some of the last call on it

env == << key, token, built, tampered >>

args == << jwt_alg_name, options, verify_fn >>

segments == << parts, jwt_header_b64, claims_b64, authentication_tag_b64 >>

decoded == << jwt_header, authentication_tag, claims >>

meta == << metadata, call >>

vars == << env, op, pc, args, segments, decoded, fn_calls, trace, result, meta >>

\* the locals before an operation starts
Cleared ==
    /\ jwt_alg_name = << >>
    /\ options = DefaultOptions
    /\ verify_fn = "none"
    /\ parts = 0
    /\ jwt_header_b64 = << >>
    /\ claims_b64 = << >>
    /\ authentication_tag_b64 = << >>
    /\ jwt_header = None
    /\ authentication_tag = << >>
    /\ claims = None
    /\ fn_calls = << >>
    /\ trace = << >>
    /\ result = None

Init ==
    /\ key \in Keys
    /\ token = << >>
    /\ built = None
    /\ tampered = FALSE
    /\ op = "none"
    /\ pc = "idle"
    /\ Cleared
    /\ metadata = None
    /\ call = None

(***************************************************************************)
(* What the environment does between operations                            *)
(***************************************************************************)
\* the locals of the next operation
Clear ==
    /\ jwt_alg_name' = << >>
    /\ options' = DefaultOptions
    /\ verify_fn' = "none"
    /\ parts' = 0
    /\ jwt_header_b64' = << >>
    /\ claims_b64' = << >>
    /\ authentication_tag_b64' = << >>
    /\ jwt_header' = None
    /\ authentication_tag' = << >>
    /\ claims' = None
    /\ fn_calls' = << >>
    /\ trace' = << >>
    /\ result' = None

\* the operation has returned; the caller goes on
Return ==
    /\ pc = "done"
    /\ pc' = "idle"
    /\ op' = "none"
    /\ Clear
    /\ UNCHANGED << env, meta >>

\* a token arrives from a third party
Receive ==
    /\ pc = "idle"
    /\ \E t \in ForeignTokens : token' = t
    /\ built' = None
    /\ tampered' = FALSE
    /\ UNCHANGED << key, op, pc, args, segments, decoded, fn_calls, trace,
                    result, meta >>

\* another character of the base64url alphabet
Flip(c) == IF c = 65 THEN 66 ELSE 65

\* the places a third party changes: the first and the last character of
\* the header segment and the last character of the claims segment
TamperPlaces(t) ==
    LET d1 == FirstIn(t, 1, {Dot})
        d2 == FirstIn(t, d1 + 1, {Dot})
    IN  {1, d1 - 1, d2 - 1}

\* a third party changes one character of the authenticated range of a
\* built token and keeps the tag
Tamper ==
    /\ pc = "idle"
    /\ IsSome(built)
    /\ ~tampered
    /\ \E i \in TamperPlaces(token) : token' = [token EXCEPT ![i] = Flip(token[i])]
    /\ tampered' = TRUE
    /\ UNCHANGED << key, built, op, pc, args, segments, decoded, fn_calls,
                    trace, result, meta >>

(***************************************************************************)
(* Token::build, lines 91-113, with the closure's outcome an input         *)
(***************************************************************************)
Build ==
    /\ pc = "idle"
    /\ \E h \in BuildHeaders, c \in BuildClaims, works \in BOOLEAN :
        \E order \in Orders(AudienceValues(c.audiences)) :
            \E r \in {TokenBuild(h, c, order, key, works)} :
                /\ result' = Some(r)
                /\ IF r.ok
                   THEN /\ token' = r.val
                        /\ built' = Some([jwt_header |-> h, claims |-> c,
                                          authenticated |->
                                              BuildAuthenticated(h, c, order)])
                        /\ tampered' = FALSE
                   ELSE UNCHANGED << token, built, tampered >>
    /\ op' = "build"
    /\ pc' = "done"
    /\ trace' = << "build" >>
    /\ UNCHANGED << key, args, segments, decoded, fn_calls, meta >>

(***************************************************************************)
(* Token::verify, lines 115-159, one action per statement                  *)
(***************************************************************************)
\* the operation returns the error
Fail(e) ==
    /\ pc' = "done"
    /\ result' = Some(Err(e))

\* lines 124-126: the arguments, the split and its first part
VerifyBegin ==
    /\ pc = "idle"
    /\ \E alg \in AlgNames, o \in OptionsInputs, kind \in VerifyFnKinds :
        /\ jwt_alg_name' = alg
        /\ options' = UnwrapOr(o, DefaultOptions)
        /\ verify_fn' = kind
    /\ op' = "verify"
    /\ trace' = << "begin" >>
    /\ \E first \in {SplitNext(token, 1)} :
           /\ parts' = first.pos
           /\ IF IsSome(first.part)
              THEN /\ jwt_header_b64' = first.part[1]
                   /\ pc' = "header_len"
                   /\ UNCHANGED result
              ELSE /\ Fail("CompactEncodingError")
                   /\ UNCHANGED jwt_header_b64
    /\ UNCHANGED << env, claims_b64, authentication_tag_b64, decoded, fn_calls,
                    meta >>

\* lines 127-130 with < in the place of <=
VerifyHeaderLenExclusive ==
    /\ op = "verify"
    /\ pc = "header_len"
    /\ trace' = Append(trace, "header_len")
    /\ IF Len(jwt_header_b64) < MAX_HEADER_LENGTH
       THEN pc' = "parts" /\ UNCHANGED result
       ELSE Fail("HeaderTooLarge")
    /\ UNCHANGED << env, op, args, segments, decoded, fn_calls, meta >>

\* lines 127-130
VerifyHeaderLen ==
    /\ op = "verify"
    /\ pc = "header_len"
    /\ trace' = Append(trace, "header_len")
    /\ IF Len(jwt_header_b64) <= MAX_HEADER_LENGTH
       THEN pc' = "parts" /\ UNCHANGED result
       ELSE Fail("HeaderTooLarge")
    /\ UNCHANGED << env, op, args, segments, decoded, fn_calls, meta >>

\* lines 131-133: the second and the third part, and no fourth
VerifyParts ==
    /\ op = "verify"
    /\ pc = "parts"
    /\ trace' = Append(trace, "parts")
    /\ \E second \in {SplitNext(token, parts)} :
       \E third \in {SplitNext(token, second.pos)} :
       \E fourth \in {SplitNext(token, third.pos)} :
           IF IsSome(second.part) /\ IsSome(third.part) /\ ~IsSome(fourth.part)
           THEN /\ claims_b64' = second.part[1]
                /\ authentication_tag_b64' = third.part[1]
                /\ parts' = fourth.pos
                /\ pc' = "header_decode"
                /\ UNCHANGED result
           ELSE /\ Fail("CompactEncodingError")
                /\ UNCHANGED << parts, claims_b64, authentication_tag_b64 >>
    /\ UNCHANGED << env, op, args, jwt_header_b64, decoded, fn_calls, meta >>

\* Base64UrlSafeNoPadding::decode_to_vec and serde_json::from_slice of the
\* header segment
HeaderOfBytes(bytes) == IF bytes.ok THEN HeaderFromJson(bytes.val) ELSE bytes

DecodeHeader(b64) == HeaderOfBytes(Base64Decode(b64))

\* lines 134-136
VerifyHeaderDecode ==
    /\ op = "verify"
    /\ pc = "header_decode"
    /\ trace' = Append(trace, "header_decode")
    /\ \E r \in {DecodeHeader(jwt_header_b64)} :
           IF r.ok
           THEN /\ jwt_header' = Some(r.val)
                /\ pc' = "signature_type"
                /\ UNCHANGED result
           ELSE /\ Fail(r.err)
                /\ UNCHANGED jwt_header
    /\ UNCHANGED << env, op, args, segments, authentication_tag, claims,
                    fn_calls, meta >>

\* lines 137-139 without the comparison
VerifySignatureTypeUnchecked ==
    /\ op = "verify"
    /\ pc = "signature_type"
    /\ trace' = Append(trace, "signature_type")
    /\ pc' = "algorithm"
    /\ UNCHANGED << env, op, args, segments, decoded, fn_calls, result, meta >>

\* lines 137-139
VerifySignatureType ==
    /\ op = "verify"
    /\ pc = "signature_type"
    /\ trace' = Append(trace, "signature_type")
    /\ IF IsSome(jwt_header[1].signature_type)
          /\ jwt_header[1].signature_type[1] # JWT
       THEN Fail("NotJWT")
       ELSE pc' = "algorithm" /\ UNCHANGED result
    /\ UNCHANGED << env, op, args, segments, decoded, fn_calls, meta >>

\* an ASCII letter in lower case
ToLower(c) == IF c >= 65 /\ c <= 90 THEN c + 32 ELSE c

EqIgnoreCase(a, b) ==
    /\ Len(a) = Len(b)
    /\ \A i \in 1..Len(a) : ToLower(a[i]) = ToLower(b[i])

\* lines 140-143 with eq_ignore_ascii_case in the place of ==
VerifyAlgorithmIgnoringCase ==
    /\ op = "verify"
    /\ pc = "algorithm"
    /\ trace' = Append(trace, "algorithm")
    /\ IF EqIgnoreCase(jwt_header[1].algorithm, jwt_alg_name)
       THEN pc' = "key_id" /\ UNCHANGED result
       ELSE Fail("AlgorithmMismatch")
    /\ UNCHANGED << env, op, args, segments, decoded, fn_calls, meta >>

\* lines 140-143
VerifyAlgorithm ==
    /\ op = "verify"
    /\ pc = "algorithm"
    /\ trace' = Append(trace, "algorithm")
    /\ IF jwt_header[1].algorithm = jwt_alg_name
       THEN pc' = "key_id" /\ UNCHANGED result
       ELSE Fail("AlgorithmMismatch")
    /\ UNCHANGED << env, op, args, segments, decoded, fn_calls, meta >>

\* lines 144-150 without the else branch: a header without key_id passes
VerifyKeyIdWhenPresent ==
    /\ op = "verify"
    /\ pc = "key_id"
    /\ trace' = Append(trace, "key_id")
    /\ IF IsSome(options.required_key_id) /\ IsSome(jwt_header[1].key_id)
          /\ jwt_header[1].key_id[1] # options.required_key_id[1]
       THEN Fail("KeyIdentifierMismatch")
       ELSE pc' = "tag_decode" /\ UNCHANGED result
    /\ UNCHANGED << env, op, args, segments, decoded, fn_calls, meta >>

\* lines 144-150
VerifyKeyId ==
    /\ op = "verify"
    /\ pc = "key_id"
    /\ trace' = Append(trace, "key_id")
    /\ IF IsSome(options.required_key_id)
       THEN IF IsSome(jwt_header[1].key_id)
            THEN IF jwt_header[1].key_id[1] = options.required_key_id[1]
                 THEN pc' = "tag_decode" /\ UNCHANGED result
                 ELSE Fail("KeyIdentifierMismatch")
            ELSE Fail("MissingJWTKeyIdentifier")
       ELSE pc' = "tag_decode" /\ UNCHANGED result
    /\ UNCHANGED << env, op, args, segments, decoded, fn_calls, meta >>

\* lines 151-152
VerifyTagDecode ==
    /\ op = "verify"
    /\ pc = "tag_decode"
    /\ trace' = Append(trace, "tag_decode")
    /\ \E r \in {Base64Decode(authentication_tag_b64)} :
           IF r.ok
           THEN /\ authentication_tag' = r.val
                /\ pc' = "authenticate"
                /\ UNCHANGED result
           ELSE /\ Fail(r.err)
                /\ UNCHANGED authentication_tag
    /\ UNCHANGED << env, op, args, segments, jwt_header, claims, fn_calls,
                    meta >>

\* line 153 with the header segment written again from the decoded header
AuthenticatedReencoded ==
    Base64Encode(HeaderToJson(jwt_header[1])) \o << Dot >> \o claims_b64

\* line 153: &token[..jwt_header_b64.len() + 1 + claims_b64.len()]
Authenticated ==
    SubSeq(token, 1, Len(jwt_header_b64) + 1 + Len(claims_b64))

\* lines 153-154 without the ? after the call of the closure
VerifyAuthenticateUnchecked ==
    /\ op = "verify"
    /\ pc = "authenticate"
    /\ trace' = Append(trace, "authenticate")
    /\ \E r \in {VerifyFn(verify_fn, key, Authenticated, authentication_tag)} :
           fn_calls' = Append(fn_calls,
                              [authenticated |-> Authenticated,
                               authentication_tag |-> authentication_tag,
                               ok |-> r.ok])
    /\ pc' = "claims_decode"
    /\ UNCHANGED << env, op, args, segments, decoded, result, meta >>

\* lines 153-154: the closure is called and its error returned
VerifyAuthenticate ==
    /\ op = "verify"
    /\ pc = "authenticate"
    /\ trace' = Append(trace, "authenticate")
    /\ \E r \in {VerifyFn(verify_fn, key, Authenticated, authentication_tag)} :
           /\ fn_calls' = Append(fn_calls,
                                 [authenticated |-> Authenticated,
                                  authentication_tag |-> authentication_tag,
                                  ok |-> r.ok])
           /\ IF r.ok
              THEN pc' = "claims_decode" /\ UNCHANGED result
              ELSE Fail(r.err)
    /\ UNCHANGED << env, op, args, segments, decoded, meta >>

\* Base64UrlSafeNoPadding::decode_to_vec and serde_json::from_slice of the
\* claims segment
ClaimsOfBytes(bytes) == IF bytes.ok THEN ClaimsFromJson(bytes.val) ELSE bytes

DecodeClaims(b64) == ClaimsOfBytes(Base64Decode(b64))

\* lines 155-156
VerifyClaimsDecode ==
    /\ op = "verify"
    /\ pc = "claims_decode"
    /\ trace' = Append(trace, "claims_decode")
    /\ \E r \in {DecodeClaims(claims_b64)} :
           IF r.ok
           THEN /\ claims' = Some(r.val)
                /\ pc' = "validate"
                /\ UNCHANGED result
           ELSE /\ Fail(r.err)
                /\ UNCHANGED claims
    /\ UNCHANGED << env, op, args, segments, jwt_header, authentication_tag,
                    fn_calls, meta >>

\* lines 157-158 without the call of validate
VerifyWithoutValidate ==
    /\ op = "verify"
    /\ pc = "validate"
    /\ trace' = Append(trace, "validate")
    /\ pc' = "done"
    /\ result' = Some(Ok(claims[1]))
    /\ UNCHANGED << env, op, args, segments, decoded, fn_calls, meta >>

\* lines 157-158: validate reads the clock; Ok(claims)
VerifyValidate ==
    /\ op = "verify"
    /\ pc = "validate"
    /\ trace' = Append(trace, "validate")
    /\ pc' = "done"
    /\ \E now \in Clock : result' = Some(Validate(claims[1], options, now))
    /\ UNCHANGED << env, op, args, segments, decoded, fn_calls, meta >>

(***************************************************************************)
(* Token::decode_metadata, lines 162-173                                   *)
(***************************************************************************)
\* lines 163-164
DecodeMetadataBegin ==
    /\ pc = "idle"
    /\ op' = "decode_metadata"
    /\ trace' = << "begin" >>
    /\ \E first \in {SplitNext(token, 1)} :
           /\ parts' = first.pos
           /\ IF IsSome(first.part)
              THEN /\ jwt_header_b64' = first.part[1]
                   /\ pc' = "header_len"
                   /\ UNCHANGED result
              ELSE /\ Fail("CompactEncodingError")
                   /\ UNCHANGED jwt_header_b64
    /\ UNCHANGED << env, args, claims_b64, authentication_tag_b64, decoded,
                    fn_calls, meta >>

\* lines 165-168
DecodeMetadataHeaderLen ==
    /\ op = "decode_metadata"
    /\ pc = "header_len"
    /\ trace' = Append(trace, "header_len")
    /\ IF Len(jwt_header_b64) <= MAX_HEADER_LENGTH
       THEN pc' = "header_decode" /\ UNCHANGED result
       ELSE Fail("HeaderTooLarge")
    /\ UNCHANGED << env, op, args, segments, decoded, fn_calls, meta >>

\* lines 169-172: Ok(TokenMetadata { jwt_header })
DecodeMetadataDecode ==
    /\ op = "decode_metadata"
    /\ pc = "header_decode"
    /\ trace' = Append(trace, "header_decode")
    /\ pc' = "done"
    /\ \E r \in {DecodeHeader(jwt_header_b64)} :
           /\ result' = Some(r)
           /\ jwt_header' = IF r.ok THEN Some(r.val) ELSE None
    /\ UNCHANGED << env, op, args, segments, authentication_tag, claims,
                    fn_calls, meta >>

Next ==
    \/ Return
    \/ Receive
    \/ Tamper
    \/ Build
    \/ VerifyBegin
    \/ VerifyHeaderLen
    \/ VerifyParts
    \/ VerifyHeaderDecode
    \/ VerifySignatureType
    \/ VerifyAlgorithm
    \/ VerifyKeyId
    \/ VerifyTagDecode
    \/ VerifyAuthenticate
    \/ VerifyClaimsDecode
    \/ VerifyValidate
    \/ DecodeMetadataBegin
    \/ DecodeMetadataHeaderLen
    \/ DecodeMetadataDecode

Spec == Init /\ [][Next]_vars

(***************************************************************************)
(* The token as the claims speak of it: its segments are what lies         *)
(* between its dots.                                                       *)
(***************************************************************************)
DotPlaces(t) == {i \in 1..Len(t) : t[i] = Dot}

NumSegments(t) == Cardinality(DotPlaces(t)) + 1

\* the place of the n-th dot, Len(t) + 1 when there are fewer
DotPlace(t, n) ==
    IF Cardinality(DotPlaces(t)) < n THEN Len(t) + 1
    ELSE CHOOSE d \in DotPlaces(t) :
            Cardinality({e \in DotPlaces(t) : e < d}) = n - 1

\* the n-th segment, for n at most NumSegments(t)
Segment(t, n) ==
    SubSeq(t, IF n = 1 THEN 1 ELSE DotPlace(t, n - 1) + 1, DotPlace(t, n) - 1)

\* whether the running operation has run the statement
Ran(step) == \E i \in 1..Len(trace) : trace[i] = step

\* the place of the statement in the trace, 0 when it has not run
RanAt(step) ==
    IF Ran(step) THEN CHOOSE i \in 1..Len(trace) : trace[i] = step ELSE 0

VerifyDone == op = "verify" /\ pc = "done"

Failed(e) == pc = "done" /\ result = Some(Err(e))

\* token is what Token::build returned
Untouched == IsSome(built) /\ ~tampered

\* the header the first segment of token decodes to
TokenHeader == DecodeHeader(Segment(token, 1))

\* the checks of verify before the algorithm check pass on token
PassesUpToAlgorithm ==
    /\ NumSegments(token) = 3
    /\ Len(Segment(token, 1)) <= MAX_HEADER_LENGTH
    /\ TokenHeader.ok
    /\ TokenHeader.val.signature_type \in {None, Some(JWT)}

\* ... and the algorithm check
PassesUpToKeyId ==
    /\ PassesUpToAlgorithm
    /\ TokenHeader.val.algorithm = jwt_alg_name

(***************************************************************************)
(* C1: when the header decodes and its algorithm differs from the          *)
(* jwt_alg_name the caller expects, verify returns AlgorithmMismatch and   *)
(* the authentication closure is never called, whatever the closure would  *)
(* have answered.                                                          *)
(***************************************************************************)
C1_AlgorithmMismatch ==
    (VerifyDone /\ PassesUpToAlgorithm
        /\ TokenHeader.val.algorithm # jwt_alg_name)
    => /\ fn_calls = << >>
       /\ ~Ran("authenticate")
       /\ result = Some(Err("AlgorithmMismatch"))

\* a token of Token::build whose tag the closure would accept is refused
\* for its algorithm
C1_Witness ==
    /\ VerifyDone
    /\ Untouched
    /\ verify_fn \in {"matched", "accept"}
    /\ built[1].jwt_header.algorithm # jwt_alg_name
    /\ Failed("AlgorithmMismatch")
    /\ fn_calls = << >>

(***************************************************************************)
(* C2: the claims segment is decoded only after the authentication closure *)
(* returned success; when the closure fails, verify returns the closure's  *)
(* error and no claims are decoded or returned.                            *)
(***************************************************************************)
C2_ClaimsAfterAuthentication ==
    op = "verify" =>
        /\ (Ran("claims_decode") \/ IsSome(claims) \/ pc \in {"claims_decode", "validate"})
            => /\ Len(fn_calls) = 1
               /\ fn_calls[1].ok
               /\ Ran("authenticate")
               /\ Ran("claims_decode") => RanAt("authenticate") < RanAt("claims_decode")
        /\ (fn_calls # << >> /\ ~fn_calls[1].ok)
            => /\ Failed("AuthenticationFailure")
               /\ claims = None
               /\ ~Ran("claims_decode")
               /\ ~Ran("validate")

\* the closure refuses a token whose claims segment would have decoded
C2_Witness ==
    /\ VerifyDone
    /\ fn_calls # << >>
    /\ ~fn_calls[1].ok
    /\ DecodeClaims(Segment(token, 2)).ok
    /\ Failed("AuthenticationFailure")
    /\ claims = None

(***************************************************************************)
(* C3: the closure is called with the slice of the received token that     *)
(* runs from its start to the end of the claims segment, that is the       *)
(* header segment, a dot and the claims segment as received, and with the  *)
(* bytes the third segment decodes to; a change of the header or claims    *)
(* segment after signing changes the string the closure sees.              *)
(***************************************************************************)
C3_AuthenticatedSlice ==
    (op = "verify" /\ fn_calls # << >>) =>
        /\ Len(fn_calls) = 1
        /\ fn_calls[1].authenticated =
               Segment(token, 1) \o << Dot >> \o Segment(token, 2)
        /\ fn_calls[1].authenticated = SubSeq(token, 1, DotPlace(token, 2) - 1)
        /\ token = fn_calls[1].authenticated \o << Dot >> \o Segment(token, 3)
        /\ Base64Decode(Segment(token, 3)) = Ok(fn_calls[1].authentication_tag)
        /\ (IsSome(built) /\ ~tampered)
               => fn_calls[1].authenticated = built[1].authenticated
        /\ (IsSome(built) /\ tampered)
               => fn_calls[1].authenticated # built[1].authenticated

\* a token changed after signing reaches the closure, which sees the change
\* and refuses the tag
C3_Witness ==
    /\ op = "verify"
    /\ IsSome(built)
    /\ tampered
    /\ verify_fn = "matched"
    /\ fn_calls # << >>
    /\ fn_calls[1].authenticated # built[1].authenticated
    /\ ~fn_calls[1].ok

(***************************************************************************)
(* The outcome of verify as a list of checks on the token and the          *)
(* arguments, each giving the error it fails with or "" when it passes.    *)
(* A check is read only after the checks before it have passed.            *)
(***************************************************************************)
Check(name) ==
    CASE name = "segments" ->
            IF NumSegments(token) = 3 THEN "" ELSE "CompactEncodingError"
      [] name = "header_len" ->
            IF Len(Segment(token, 1)) <= MAX_HEADER_LENGTH THEN ""
            ELSE "HeaderTooLarge"
      [] name = "header_decode" -> TokenHeader.err
      [] name = "signature_type" ->
            IF TokenHeader.val.signature_type \in {None, Some(JWT)} THEN ""
            ELSE "NotJWT"
      [] name = "algorithm" ->
            IF TokenHeader.val.algorithm = jwt_alg_name THEN ""
            ELSE "AlgorithmMismatch"
      [] name = "key_id" ->
            IF ~IsSome(options.required_key_id) THEN ""
            ELSE IF ~IsSome(TokenHeader.val.key_id) THEN "MissingJWTKeyIdentifier"
            ELSE IF TokenHeader.val.key_id # options.required_key_id
                 THEN "KeyIdentifierMismatch"
            ELSE ""
      [] name = "tag_decode" -> Base64Decode(Segment(token, 3)).err
      [] name = "authenticate" ->
            VerifyFn(verify_fn, key,
                     Segment(token, 1) \o << Dot >> \o Segment(token, 2),
                     Base64Decode(Segment(token, 3)).val).err
      [] name = "claims_decode" -> DecodeClaims(Segment(token, 2)).err

RECURSIVE FirstFailing(_)
\* the error of the first check of the list that fails, "" when all pass
FirstFailing(order) ==
    IF order = << >> THEN ""
    ELSE IF Check(Head(order)) # "" THEN Check(Head(order))
    ELSE FirstFailing(Tail(order))

\* what verify returns when its checks are made in the order given, the
\* validation of the decoded claims being the last
Outcomes(order) ==
    IF FirstFailing(order) # "" THEN {Err(FirstFailing(order))}
    ELSE {Validate(DecodeClaims(Segment(token, 2)).val, options, now) :
            now \in Clock}

AfterHeader ==
    << "header_decode", "signature_type", "algorithm", "key_id", "tag_decode",
       "authenticate", "claims_decode" >>

\* the order of the code: the length of the first segment is compared
\* before the other segments are asked for
OrderOfCode == << "header_len", "segments" >> \o AfterHeader

OrderAsStated == << "segments", "header_len" >> \o AfterHeader

(***************************************************************************)
(* C4: verify makes its checks in a fixed order and returns the error of   *)
(* the first that fails: the length of the header segment, the count of    *)
(* three segments, header decode, signature_type, algorithm, key id, tag   *)
(* decode, the authentication closure, claims decode, claims validation.   *)
(* The length of the first segment is checked before the count of          *)
(* segments.                                                               *)
(***************************************************************************)
C4_CheckOrder ==
    VerifyDone =>
        /\ IsSome(result)
        /\ result[1] \in Outcomes(OrderOfCode)

\* a token fails two checks and the earlier one names the error: an
\* oversized first segment in a token of one segment
C4_Witness ==
    /\ VerifyDone
    /\ NumSegments(token) # 3
    /\ Len(Segment(token, 1)) > MAX_HEADER_LENGTH
    /\ Failed("HeaderTooLarge")

\* C4 as stated: the count of three segments is checked first, so that a
\* token without exactly three segments fails with CompactEncodingError
\* even when its first segment is longer than MAX_HEADER_LENGTH
C4_AsStated ==
    VerifyDone =>
        /\ IsSome(result)
        /\ result[1] \in Outcomes(OrderAsStated)

(***************************************************************************)
(* C5: verify and decode_metadata refuse a token whose first segment is    *)
(* longer than MAX_HEADER_LENGTH with HeaderTooLarge before anything is    *)
(* decoded, malformed or not; a first segment of exactly                   *)
(* MAX_HEADER_LENGTH characters is not refused for its length.             *)
(***************************************************************************)
C5_HeaderSizeGuard ==
    (op \in {"verify", "decode_metadata"} /\ pc = "done") =>
        /\ Len(Segment(token, 1)) > MAX_HEADER_LENGTH
            => /\ result = Some(Err("HeaderTooLarge"))
               /\ ~Ran("header_decode")
               /\ ~Ran("tag_decode")
               /\ ~Ran("claims_decode")
               /\ jwt_header = None
               /\ claims = None
               /\ fn_calls = << >>
        /\ Len(Segment(token, 1)) <= MAX_HEADER_LENGTH
            => result # Some(Err("HeaderTooLarge"))

\* decode_metadata refuses an oversized first segment that is no base64url
C5_Witness ==
    /\ op = "decode_metadata"
    /\ pc = "done"
    /\ Len(Segment(token, 1)) = MAX_HEADER_LENGTH + 1
    /\ ~Base64Decode(Segment(token, 1)).ok
    /\ Failed("HeaderTooLarge")
    /\ ~Ran("header_decode")

(***************************************************************************)
(* C6: once the earlier checks have passed, a required_key_id makes verify *)
(* succeed past the key id check only when the header's key_id is present  *)
(* and equal; an absent one fails with MissingJWTKeyIdentifier, a          *)
(* different one with KeyIdentifierMismatch; without a required_key_id the *)
(* header's key_id has no influence.                                       *)
(***************************************************************************)
C6_RequiredKeyId ==
    (VerifyDone /\ PassesUpToKeyId) =>
        IF ~IsSome(options.required_key_id)
              \/ TokenHeader.val.key_id = options.required_key_id
        THEN /\ Ran("tag_decode")
             /\ result \notin {Some(Err("MissingJWTKeyIdentifier")),
                               Some(Err("KeyIdentifierMismatch"))}
        ELSE /\ ~Ran("tag_decode")
             /\ fn_calls = << >>
             /\ result = IF IsSome(TokenHeader.val.key_id)
                         THEN Some(Err("KeyIdentifierMismatch"))
                         ELSE Some(Err("MissingJWTKeyIdentifier"))

\* a key id is required and the header of a token the closure would accept
\* has none
C6_Witness ==
    /\ VerifyDone
    /\ PassesUpToKeyId
    /\ IsSome(options.required_key_id)
    /\ ~IsSome(TokenHeader.val.key_id)
    /\ verify_fn = "accept"
    /\ Failed("MissingJWTKeyIdentifier")

\* verify is given the token of Token::build, the algorithm of its header
\* and the closure that matches the signing one
RoundTrip ==
    /\ op = "verify"
    /\ Untouched
    /\ verify_fn = "matched"
    /\ jwt_alg_name = built[1].jwt_header.algorithm

\* the header built satisfies the key id the options require
KeyIdSatisfied ==
    IsSome(options.required_key_id)
        => built[1].jwt_header.key_id = options.required_key_id

\* the claims built satisfy the options whatever the clock gives
ClaimsSatisfy(o) == \A now \in Clock : Validate(built[1].claims, o, now).ok

NoAudiencePolicy(o) == [o EXCEPT !.allowed_audiences = None]

(***************************************************************************)
(* C8: through build and verify, claims built without audience decode      *)
(* without one, and claims built with an empty audience set or a single    *)
(* audience, the empty string included, decode with the audience present;  *)
(* claims with a set of several audiences are accepted when                *)
(* allowed_audiences holds one of them; an empty audience set is never     *)
(* accepted against a non-empty allowed_audiences.                         *)
(***************************************************************************)
C8_AudiencePresence ==
    (RoundTrip /\ KeyIdSatisfied /\ pc = "done") =>
        /\ IsSome(claims)
        /\ IsSome(claims[1].audiences) <=> IsSome(built[1].claims.audiences)
        /\ claims[1].audiences = built[1].claims.audiences
        /\ (~IsSome(options.allowed_audiences) /\ result[1].ok)
            => result[1].val.audiences = built[1].claims.audiences
        /\ (/\ IsSome(options.allowed_audiences)
            /\ IsSome(built[1].claims.audiences)
            /\ built[1].claims.audiences[1].kind = "set"
            /\ built[1].claims.audiences[1].set \cap options.allowed_audiences[1] # {})
            => /\ result # Some(Err("InvalidAudience"))
               /\ ClaimsSatisfy(NoAudiencePolicy(options)) => result[1].ok
        /\ (/\ IsSome(options.allowed_audiences)
            /\ options.allowed_audiences[1] # {}
            /\ built[1].claims.audiences = Some(AsSet({})))
            => /\ ~result[1].ok
               /\ ClaimsSatisfy(NoAudiencePolicy(options))
                    => result = Some(Err("InvalidAudience"))

\* claims built with an empty audience set are refused by a verification
\* that allows one audience
C8_Witness ==
    /\ RoundTrip
    /\ pc = "done"
    /\ options.allowed_audiences = Some({AudA})
    /\ built[1].claims.audiences = Some(AsSet({}))
    /\ claims[1].audiences = Some(AsSet({}))
    /\ Failed("InvalidAudience")

(***************************************************************************)
(* NewTokenMetadata, lines 177-251                                         *)
(***************************************************************************)
\* JWTHeader::default() (crate::jwt_header): every optional field None but
\* signature_type, which the default may set to "JWT"
DefaultHeaders == {HeaderOf(<< >>, None, None), HeaderOf(<< >>, None, Some(JWT))}

\* NewTokenMetadata::new, lines 183-190, given the default header
new(algorithm, key_id, default) ==
    [default EXCEPT !.algorithm = algorithm, !.key_id = key_id]

\* lines 192-195
with_key_set_url(self, key_set_url) ==
    [self EXCEPT !.key_set_url = Some(key_set_url)]

\* lines 197-200
with_public_key(self, public_key) ==
    [self EXCEPT !.public_key = Some(public_key)]

\* lines 202-205
with_certificate_url(self, certificate_url) ==
    [self EXCEPT !.certificate_url = Some(certificate_url)]

\* the array bin after a decoder has written bytes at its start
Filled(len, bytes) == bytes \o AsSeq([i \in 1..(len - Len(bytes)) |-> 0])

\* lines 214-220 and 237-243: the hex text is decoded into bin, its length
\* compared with that of bin, and bin stored as base64url text in field
ThumbprintOfHex(self, field, len, r) ==
    IF ~r.ok THEN r
    ELSE IF Len(r.val) # len THEN Err("InvalidCertThumprint")
    ELSE Ok([self EXCEPT ![field] = Some(Base64Encode(Filled(len, r.val)))])

\* lines 222-227 and 245-250: the base64url text is decoded into bin, its
\* length compared with that of bin, and the text stored in field as given
ThumbprintOfBase64(self, field, len, thumbprint, r) ==
    IF ~r.ok THEN r
    ELSE IF Len(r.val) # len THEN Err("InvalidCertThumprint")
    ELSE Ok([self EXCEPT ![field] = Some(thumbprint)])

\* lines 207-228 with the hex text stored as given
with_certificate_sha1_thumbprint_as_given(self, thumbprint) ==
    IF Len(thumbprint) = Sha1HexLen
    THEN ThumbprintOfBase64(self, "certificate_sha1_thumbprint", Sha1Len,
                            thumbprint, HexDecodeInto(Sha1Len, thumbprint))
    ELSE ThumbprintOfBase64(self, "certificate_sha1_thumbprint", Sha1Len,
                            thumbprint, Base64DecodeInto(Sha1Len, thumbprint))

\* lines 207-228
with_certificate_sha1_thumbprint(self, thumbprint) ==
    IF Len(thumbprint) = Sha1HexLen
    THEN ThumbprintOfHex(self, "certificate_sha1_thumbprint", Sha1Len,
                         HexDecodeInto(Sha1Len, thumbprint))
    ELSE ThumbprintOfBase64(self, "certificate_sha1_thumbprint", Sha1Len,
                            thumbprint, Base64DecodeInto(Sha1Len, thumbprint))

\* lines 230-251: lines 242 and 249 assign certificate_sha1_thumbprint
with_certificate_sha256_thumbprint(self, thumbprint) ==
    IF Len(thumbprint) = Sha256HexLen
    THEN ThumbprintOfHex(self, "certificate_sha1_thumbprint", Sha256Len,
                         HexDecodeInto(Sha256Len, thumbprint))
    ELSE ThumbprintOfBase64(self, "certificate_sha1_thumbprint", Sha256Len,
                            thumbprint, Base64DecodeInto(Sha256Len, thumbprint))

(***************************************************************************)
(* The thumbprints the callers give: values of the two lengths, of one    *)
(* byte less than the shorter and of one byte more than the longer, as hex *)
(* text in either case and as base64url text, and texts that are neither.  *)
(***************************************************************************)
\* the seed-th value of n bytes
Bytes(n, seed) == AsSeq([i \in 1..n |-> (83 * seed * i + 7 * seed) % 256])

\* a hex digit, the letters in upper case when upper
HexDigit(v, upper) ==
    IF v < 10 THEN 48 + v ELSE IF upper THEN 65 + (v - 10) ELSE 97 + (v - 10)

\* Hex::encode_to_string of the callers
HexEncode(bin, upper) ==
    AsSeq([i \in 1..(2 * Len(bin)) |->
            IF i % 2 = 1 THEN HexDigit(bin[(i + 1) \div 2] \div 16, upper)
            ELSE HexDigit(bin[i \div 2] % 16, upper)])

ThumbprintLens == {Sha1Len - 1, Sha1Len, Sha256Len, Sha256Len + 1}

ThumbprintValues ==
    {Bytes(n, seed) : n \in ThumbprintLens, seed \in 1..NumThumbprints}

\* '0' forty times is the hex text of twenty bytes and the base64url text
\* of thirty; 'g' is no hex digit; '!' is in neither alphabet; the last
\* text has non-zero bits after its twentieth byte
OddThumbprints ==
    { << >>,
      AsSeq([i \in 1..Sha1HexLen |-> 48]),
      AsSeq([i \in 1..Sha1HexLen |-> 103]),
      AsSeq([i \in 1..Sha256HexLen |-> 103]),
      AsSeq([i \in 1..27 |-> IF i = 5 THEN 33 ELSE 65]),
      AsSeq([i \in 1..27 |-> 66]) }

ThumbprintInputs ==
    {HexEncode(b, FALSE) : b \in ThumbprintValues}
    \cup {HexEncode(b, TRUE) : b \in ThumbprintValues}
    \cup {Base64Encode(b) : b \in ThumbprintValues}
    \cup OddThumbprints

\* "u"
Url == << 117 >>

(***************************************************************************)
(* The calls on a NewTokenMetadata.  A setter takes self by value: when it *)
(* fails the metadata is gone with it.                                     *)
(***************************************************************************)
Called(setter, input) ==
    call' = Some([setter |-> setter, input |-> input, before |-> metadata])

\* a caller that holds no metadata makes one
New ==
    /\ metadata = None
    /\ \E key_id \in {None, Some(Kid1)}, default \in DefaultHeaders :
           metadata' = Some(new(HS256, key_id, default))
    /\ Called("new", << >>)
    /\ result' = None
    /\ UNCHANGED << env, op, pc, args, segments, decoded, fn_calls, trace >>

WithKeySetUrl ==
    /\ IsSome(metadata)
    /\ metadata' = Some(with_key_set_url(metadata[1], Url))
    /\ Called("with_key_set_url", Url)
    /\ result' = None
    /\ UNCHANGED << env, op, pc, args, segments, decoded, fn_calls, trace >>

WithPublicKey ==
    /\ IsSome(metadata)
    /\ metadata' = Some(with_public_key(metadata[1], Url))
    /\ Called("with_public_key", Url)
    /\ result' = None
    /\ UNCHANGED << env, op, pc, args, segments, decoded, fn_calls, trace >>

WithCertificateUrl ==
    /\ IsSome(metadata)
    /\ metadata' = Some(with_certificate_url(metadata[1], Url))
    /\ Called("with_certificate_url", Url)
    /\ result' = None
    /\ UNCHANGED << env, op, pc, args, segments, decoded, fn_calls, trace >>

\* what a setter returning Result<Self, Error> leaves
Returned(r) ==
    /\ result' = Some(r)
    /\ metadata' = IF r.ok THEN Some(r.val) ELSE None

WithCertificateSha1Thumbprint ==
    /\ IsSome(metadata)
    /\ \E thumbprint \in ThumbprintInputs :
           /\ Returned(with_certificate_sha1_thumbprint(metadata[1], thumbprint))
           /\ Called("with_certificate_sha1_thumbprint", thumbprint)
    /\ UNCHANGED << env, op, pc, args, segments, decoded, fn_calls, trace >>

WithCertificateSha256Thumbprint ==
    /\ IsSome(metadata)
    /\ \E thumbprint \in ThumbprintInputs :
           /\ Returned(with_certificate_sha256_thumbprint(metadata[1], thumbprint))
           /\ Called("with_certificate_sha256_thumbprint", thumbprint)
    /\ UNCHANGED << env, op, pc, args, segments, decoded, fn_calls, trace >>

NextMeta ==
    \/ New
    \/ WithKeySetUrl
    \/ WithPublicKey
    \/ WithCertificateUrl
    \/ WithCertificateSha1Thumbprint
    \/ WithCertificateSha256Thumbprint

\* no token is built or verified meanwhile
InitMeta == Init /\ key = 1

SpecMeta == InitMeta /\ [][NextMeta]_vars

(***************************************************************************)
(* The last call as the claims speak of it                                 *)
(***************************************************************************)
ThumbprintSetters ==
    {"with_certificate_sha1_thumbprint", "with_certificate_sha256_thumbprint"}

\* a thumbprint setter has returned
ThumbprintSet == IsSome(call) /\ call[1].setter \in ThumbprintSetters

\* the header field that bears the name of the setter
OwnField(setter) ==
    IF setter = "with_certificate_sha1_thumbprint"
    THEN "certificate_sha1_thumbprint"
    ELSE "certificate_sha256_thumbprint"

\* the length of the digest the setter is named after
DigestLen(setter) ==
    IF setter = "with_certificate_sha1_thumbprint" THEN Sha1Len ELSE Sha256Len

\* the bytes the text given to the setter stands for: those of its hex
\* digits when it has two characters for each byte of the digest, those of
\* its base64url characters otherwise
DecodedThumbprint(setter, text) ==
    IF Len(text) = 2 * DigestLen(setter)
    THEN HexDecodeInto(Len(text), text)
    ELSE Base64Decode(text)

(***************************************************************************)
(* C9 as stated: a thumbprint setter that succeeds stores the base64url    *)
(* text of the thumbprint in the header field of its own name and leaves   *)
(* every other field of the header as it was, the other thumbprint         *)
(* included.                                                               *)
(***************************************************************************)
C9_OwnFieldOnly ==
    (ThumbprintSet /\ result[1].ok) =>
        /\ metadata[1][OwnField(call[1].setter)] =
               Some(Base64Encode(DecodedThumbprint(call[1].setter,
                                                   call[1].input).val))
        /\ \A f \in HeaderFieldNames \ {OwnField(call[1].setter)} :
               metadata[1][f] = call[1].before[1][f]

(***************************************************************************)
(* C10: with_certificate_sha1_thumbprint given the hex text of twenty      *)
(* bytes and given their base64url text returns the same header from the   *)
(* same metadata, the field holding the base64url text; a text that does   *)
(* not stand for exactly twenty bytes, thirty-two for                      *)
(* with_certificate_sha256_thumbprint, is refused and leaves no header.    *)
(***************************************************************************)
C10_ThumbprintNormalization ==
    ThumbprintSet =>
        \E d \in {DecodedThumbprint(call[1].setter, call[1].input)} :
            IF d.ok /\ Len(d.val) = DigestLen(call[1].setter)
            THEN call[1].setter = "with_certificate_sha1_thumbprint" =>
                    /\ result[1].ok
                    /\ metadata = Some(result[1].val)
                    /\ result[1] = with_certificate_sha1_thumbprint(
                                       call[1].before[1], HexEncode(d.val, FALSE))
                    /\ result[1] = with_certificate_sha1_thumbprint(
                                       call[1].before[1], HexEncode(d.val, TRUE))
                    /\ result[1] = with_certificate_sha1_thumbprint(
                                       call[1].before[1], Base64Encode(d.val))
                    /\ metadata[1].certificate_sha1_thumbprint =
                           Some(Base64Encode(d.val))
            ELSE /\ ~result[1].ok
                 /\ metadata = None

\* the hex text of twenty bytes was given and their base64url text stored
C10_Witness ==
    /\ ThumbprintSet
    /\ call[1].setter = "with_certificate_sha1_thumbprint"
    /\ Len(call[1].input) = Sha1HexLen
    /\ result[1].ok
    /\ metadata[1].certificate_sha1_thumbprint # Some(call[1].input)
    /\ metadata[1].certificate_sha1_thumbprint =
           Some(Base64Encode(HexDecodeInto(Sha1Len, call[1].input).val))

=============================================================================
